---- MODULE Spec2Model ----
(***************************************************************************)
(* Geofence area detection, location updates and location queries of the  *)
(* shopper backend (location_service.py, bulk update of main.py).          *)
(*                                                                         *)
(* Units.  Latitudes and longitudes are integers in units of 1e-7 degree   *)
(* (the registry's centers have seven decimals, so they are exact).        *)
(* Distances and radii are integers in millimetres, so that round(x, 2)    *)
(* (rounding to the centimetre) is a real conversion.                      *)
(*                                                                         *)
(* calculate_distance_meters is the haversine formula.  All points of the  *)
(* model lie within 0.4 degree of the registry (latitude 28.8 .. 29.2),    *)
(* where a = sin^2(dlat/2) + cos(lat1) cos(lat2) sin^2(dlon/2) is below    *)
(* 1e-5 and 2 atan2(sqrt a, sqrt(1-a)) = 2 sqrt a to within 1e-5 relative; *)
(* the model computes R * sqrt(dlat^2 + cos^2(28.95 deg) dlon^2) in fixed  *)
(* point.  It agrees with the source to 2 m inside the geofences and       *)
(* their buffers and to 25 m at 37 km.  Integers are 32-bit: squares are   *)
(* taken of whole metres only.                                             *)
(*                                                                         *)
(* Wall-clock fields (last_updated, updated_at) are not modelled.          *)
(***************************************************************************)
EXTENDS Integers, Sequences, FiniteSets, TLC

VARIABLES
    latitude,       \* argument of the detection call, 1e-7 degree
    longitude,      \* argument of the detection call, 1e-7 degree
    calls,          \* which detection functions have returned: subset of {"fast", "full"}
    fast_result,    \* return value of detect_area_from_coordinates_fast
    full_result,    \* return value of detect_area_from_coordinates
    include_nearby, \* argument of detect_area_from_coordinates (False by default)
    users,          \* the "users" collection: uid -> stored document
    response,       \* what the last call of a service function returned or raised
    call,           \* the last call of a service function, or the one in flight:
                    \* its name and arguments
    registry,       \* the module-level dictionary AREA_BOUNDARIES
    tasks,          \* the calls that run concurrently: task -> its local variables
    requests        \* the "requests" collection: request_id -> stored document

vars ==
    <<latitude, longitude, calls, fast_result, full_result, include_nearby, users, response,
      call, registry, tasks, requests>>

\* the state of the concurrent calls
concurrent == <<registry, tasks, requests>>

----------------------------------------------------------------------------
(* The area registry *)

None == "None"

AreaOrder == <<"SBIT", "Pallri", "Bahalgarh", "Sonepat", "TDI">>

AreaNames == {AreaOrder[i] : i \in 1..Len(AreaOrder)}

AREA_BOUNDARIES ==
    [SBIT      |-> [center |-> <<289890834, 771506293>>, radius_m |-> 407930],
     Pallri    |-> [center |-> <<289709633, 771531023>>, radius_m |-> 1700000],
     Bahalgarh |-> [center |-> <<289470954, 770835646>>, radius_m |-> 3200000],
     Sonepat   |-> [center |-> <<289845887, 770373188>>, radius_m |-> 3500000],
     TDI       |-> [center |-> <<289098117, 771307161>>, radius_m |-> 2300000]]

BUFFER_ZONE_METERS == 50000

\* radius_squared and radius_with_buffer_squared are never read by the code
\* and are left out.
AREA_BOUNDARIES_OPTIMIZED ==
    [a \in AreaNames |->
        [center |-> AREA_BOUNDARIES[a].center,
         radius_m |-> AREA_BOUNDARIES[a].radius_m,
         radius_with_buffer |-> AREA_BOUNDARIES[a].radius_m + BUFFER_ZONE_METERS]]

MAX_UNRECOGNIZED_DISTANCE == 10000000

Nearby(a) == a \o "_nearby"

NearbyLabels == {Nearby(a) : a \in AreaNames}

\* primary_area.endswith("_nearby"), over the values primary_area takes
EndsWithNearby(s) == s \in NearbyLabels

\* primary_area.replace("_nearby", "")
BaseArea(s) == IF s \in NearbyLabels THEN CHOOSE a \in AreaNames : Nearby(a) = s ELSE s

----------------------------------------------------------------------------
(* Distance math *)

Abs(x) == IF x < 0 THEN -x ELSE x

RECURSIVE SqrtIter(_, _, _)
SqrtIter(n, lo, hi) ==
    IF lo >= hi THEN lo
    ELSE LET mid == (lo + hi + 1) \div 2
         IN  IF mid * mid <= n THEN SqrtIter(n, mid, hi) ELSE SqrtIter(n, lo, mid - 1)

\* floor of the square root
ISqrt(n) == SqrtIter(n, 0, 46340)

\* metres per 1e-6 degree of latitude, times 10000 (R * pi / 180 = 111194.9 m)
MetresPerLat == 1112

\* metres per 1e-6 degree of longitude at the registry's latitude, times 10000
MetresPerLon == 973

\* the longitude scale taken at the latitude of the first point alone:
\* cos(lat1) ** 2 in place of cos(lat1) * cos(lat2)
calculate_distance_meters_first_latitude(lat1, lon1, lat2, lon2) ==
    LET dy == ((Abs(lat2 - lat1) \div 10) * MetresPerLat) \div 10000
        scale == MetresPerLon - (lat1 - 289500000) \div 1000000
        dx == ((Abs(lon2 - lon1) \div 10) * scale) \div 10000
        s  == dx * dx + dy * dy
        d  == ISqrt(s)
    IN  d * 1000 + ((s - d * d) * 1000) \div (2 * d + 1)

\* millimetres; the square root is taken on whole metres and refined linearly
calculate_distance_meters(lat1, lon1, lat2, lon2) ==
    LET dy == ((Abs(lat2 - lat1) \div 10) * MetresPerLat) \div 10000
        dx == ((Abs(lon2 - lon1) \div 10) * MetresPerLon) \div 10000
        s  == dx * dx + dy * dy
        d  == ISqrt(s)
    IN  d * 1000 + ((s - d * d) * 1000) \div (2 * d + 1)

\* round(x, 2): to the centimetre, halves to the even centimetre
Round2(v) ==
    LET r  == v % 10
        lo == v - r
    IN  IF r < 5 THEN lo
        ELSE IF r > 5 THEN lo + 10
        ELSE IF (lo \div 10) % 2 = 0 THEN lo ELSE lo + 10

\* max_distance_m / 111000.0 degrees, in 1e-7 degree (floor: the differences
\* compared with it are integers)
MaxDegrees(max_distance_m) == (max_distance_m * 10) \div 111

\* "True" definitely within, "False" definitely outside, "None" uncertain
quick_distance_check(lat1, lon1, lat2, lon2, max_distance_m) ==
    LET max_degrees == MaxDegrees(max_distance_m)
        lat_diff == Abs(lat1 - lat2)
        lon_diff == Abs(lon1 - lon2)
    IN  IF lat_diff > max_degrees \/ lon_diff > max_degrees THEN "False"
        ELSE IF lat_diff < 90000 /\ lon_diff < 90000 THEN "True"
        ELSE "None"

\* distance from a point to the center of a registered area
CenterDistance(lat, lon, a) ==
    calculate_distance_meters(lat, lon, AREA_BOUNDARIES[a].center[1], AREA_BOUNDARIES[a].center[2])

----------------------------------------------------------------------------
(* Full-mode detection *)

\* first pass: the distance to every area center
DistancesCalculated(lat, lon) == [a \in AreaNames |-> CenterDistance(lat, lon, a)]

\* a first pass whose test is inflated by the buffer
StrictMatchesInflated(D) ==
    SelectSeq(AreaOrder, LAMBDA a : D[a] <= AREA_BOUNDARIES[a].radius_m + BUFFER_ZONE_METERS)

\* first pass: the areas whose own radius contains the point, in registry order
StrictMatches(D) == SelectSeq(AreaOrder, LAMBDA a : D[a] <= AREA_BOUNDARIES[a].radius_m)

\* a min() that ignores the key
ClosestOfFirst(seq, D) == seq[1]

\* min(seq, key = D): the first element of seq among those of least distance
ClosestOf(seq, D) ==
    LET i == CHOOSE i \in 1..Len(seq) :
                 /\ \A j \in 1..Len(seq) : D[seq[i]] <= D[seq[j]]
                 /\ \A j \in 1..(i - 1) : D[seq[j]] > D[seq[i]]
    IN  seq[i]

\* an edge test that forgets the buffer
PrimaryOnEdgeNoBuffer(closest_distance, primary_radius) ==
    closest_distance >= primary_radius

\* an edge test with the comparison turned around
PrimaryOnEdgeInverted(closest_distance, primary_radius) ==
    closest_distance <= primary_radius - BUFFER_ZONE_METERS

\* is_on_edge of the branch "matching_areas is non-empty"
PrimaryOnEdge(closest_distance, primary_radius) ==
    closest_distance >= primary_radius - BUFFER_ZONE_METERS

\* the branch "matching_areas is non-empty"
StrictBranch(D, matching_areas) ==
    LET primary_area == ClosestOf(matching_areas, D)
    IN  [primary_area |-> primary_area,
         matching_areas |-> matching_areas,
         is_on_edge |-> PrimaryOnEdge(D[primary_area], AREA_BOUNDARIES[primary_area].radius_m)]

\* a fallback that forgets the buffer
FallbackBranchNoBuffer(D, max_unrecognized_distance_m) ==
    LET closest_area_name == ClosestOf(AreaOrder, D)
    IN  IF D[closest_area_name] <= max_unrecognized_distance_m
        THEN [primary_area |-> Nearby(closest_area_name),
              matching_areas |-> <<>>,
              is_on_edge |-> FALSE]
        ELSE [primary_area |-> None, matching_areas |-> <<>>, is_on_edge |-> FALSE]

\* a fallback that does not append the area it makes primary
FallbackBranchNoAppend(D, max_unrecognized_distance_m) ==
    LET closest_area_name == ClosestOf(AreaOrder, D)
        closest_distance == D[closest_area_name]
        closest_radius == AREA_BOUNDARIES[closest_area_name].radius_m
    IN  IF closest_distance <= max_unrecognized_distance_m
        THEN IF closest_distance <= closest_radius + BUFFER_ZONE_METERS
             THEN [primary_area |-> closest_area_name,
                   matching_areas |-> <<>>,
                   is_on_edge |-> TRUE]
             ELSE [primary_area |-> Nearby(closest_area_name),
                   matching_areas |-> <<>>,
                   is_on_edge |-> FALSE]
        ELSE [primary_area |-> None, matching_areas |-> <<>>, is_on_edge |-> FALSE]

\* the branch "not in any area's radius": the nearest center decides
FallbackBranch(D, max_unrecognized_distance_m) ==
    LET closest_area_name == ClosestOf(AreaOrder, D)
        closest_distance == D[closest_area_name]
        closest_radius == AREA_BOUNDARIES[closest_area_name].radius_m
    IN  IF closest_distance <= max_unrecognized_distance_m
        THEN IF closest_distance <= closest_radius + BUFFER_ZONE_METERS
             THEN [primary_area |-> closest_area_name,
                   matching_areas |-> <<closest_area_name>>,
                   is_on_edge |-> TRUE]
             ELSE [primary_area |-> Nearby(closest_area_name),
                   matching_areas |-> <<>>,
                   is_on_edge |-> FALSE]
        ELSE [primary_area |-> None, matching_areas |-> <<>>, is_on_edge |-> FALSE]

InSeq(x, seq) == \E i \in 1..Len(seq) : seq[i] = x

\* one entry of nearby_areas
NearbyEntry(area_name, distance, area_radius) ==
    [area |-> area_name,
     distance_meters |-> Round2(distance),
     distance_from_edge |-> Round2(distance - area_radius)]

\* a nearby test that forgets the buffer
WithinBufferStrict(distance, area_radius) == distance <= area_radius

\* whether an area that is not matching is listed in nearby_areas
WithinBuffer(distance, area_radius) == distance <= area_radius + BUFFER_ZONE_METERS

RECURSIVE NearbyFrom(_, _, _)
NearbyFrom(i, D, matching_areas) ==
    IF i > Len(AreaOrder) THEN <<>>
    ELSE LET area_name == AreaOrder[i]
             area_radius == AREA_BOUNDARIES[area_name].radius_m
         IN  IF ~InSeq(area_name, matching_areas) /\ WithinBuffer(D[area_name], area_radius)
             THEN <<NearbyEntry(area_name, D[area_name], area_radius)>>
                      \o NearbyFrom(i + 1, D, matching_areas)
             ELSE NearbyFrom(i + 1, D, matching_areas)

NearbyAreas(D, matching_areas, with_nearby) ==
    IF with_nearby THEN NearbyFrom(1, D, matching_areas) ELSE <<>>

\* a distances map decided before the buffered fallback added its area
ReturnDistancesBeforeFallback(D, matching_areas) ==
    IF StrictMatches(D) # <<>> THEN <<>> ELSE [k \in AreaNames |-> Round2(D[k])]

\* the distances map of the result: {} is the function of empty domain
ReturnDistances(D, matching_areas) ==
    IF matching_areas # <<>> THEN <<>> ELSE [k \in AreaNames |-> Round2(D[k])]

detect_area_from_coordinates(lat, lon, with_nearby, max_unrecognized_distance_m) ==
    LET D == DistancesCalculated(lat, lon)
        strict == StrictMatches(D)
        b == IF strict # <<>> THEN StrictBranch(D, strict)
             ELSE FallbackBranch(D, max_unrecognized_distance_m)
    IN  [primary_area |-> b.primary_area,
         all_matching_areas |-> b.matching_areas,
         nearby_areas |-> NearbyAreas(D, b.matching_areas, with_nearby),
         is_on_edge |-> b.is_on_edge,
         distances |-> ReturnDistances(D, b.matching_areas)]

----------------------------------------------------------------------------
(* Fast-mode detection *)

\* a containment test that takes the buffer in
FastContainsWithBuffer(distance, boundary) == distance <= boundary.radius_with_buffer

\* distance <= boundary["radius_m"]
FastContains(distance, boundary) == distance <= boundary.radius_m

\* the containment loop from the i-th area of the registry on; None when it
\* runs off the end
RECURSIVE FastScan(_, _, _)
FastScan(lat, lon, i) ==
    IF i > Len(AreaOrder) THEN None
    ELSE LET area_name == AreaOrder[i]
             boundary == AREA_BOUNDARIES_OPTIMIZED[area_name]
             quick_check == quick_distance_check(lat, lon, boundary.center[1],
                                boundary.center[2], boundary.radius_with_buffer)
             distance == calculate_distance_meters(lat, lon, boundary.center[1],
                                boundary.center[2])
         IN  IF quick_check = "False" THEN FastScan(lat, lon, i + 1)
             ELSE IF quick_check = "True" /\ FastContains(distance, boundary) THEN area_name
             ELSE IF FastContains(distance, boundary) THEN area_name
             ELSE FastScan(lat, lon, i + 1)

\* a nearest-center fallback without the 10 km limit
FastNearestNoLimit(lat, lon) ==
    LET D == [a \in AreaNames |-> CenterDistance(lat, lon, a)]
    IN  Nearby(ClosestOf(AreaOrder, D))

\* the second loop: the nearest center, the first one on a tie
FastNearest(lat, lon) ==
    LET D == [a \in AreaNames |-> CenterDistance(lat, lon, a)]
        nearest_area == ClosestOf(AreaOrder, D)
    IN  IF D[nearest_area] <= MAX_UNRECOGNIZED_DISTANCE THEN Nearby(nearest_area) ELSE None

detect_area_from_coordinates_fast(lat, lon) ==
    LET contained == FastScan(lat, lon, 1)
    IN  IF contained # None THEN contained ELSE FastNearest(lat, lon)

----------------------------------------------------------------------------
(* The points detection is applied to *)

\* number of rows and columns of each grid
FarN == 19
MidNLat == 47
MidNLon == 61
FineNLat == 24
FineNLon == 40

Grid(lat0, lon0, step, nlat, nlon) ==
    {<<lat0 + i * step, lon0 + j * step>> : i \in 0..(nlat - 1), j \in 0..(nlon - 1)}

\* 0.02 degree steps from (28.80, 76.91): reaches beyond 10 km of every center
FarGrid == Grid(288000000, 769100000, 200000, FarN, FarN)

\* 0.003 degree steps from (28.88, 77.00): covers the five geofences
MidGrid == Grid(288800000, 770000000, 30000, MidNLat, MidNLon)

\* 0.0005 degree steps from (28.983, 77.143): SBIT and the north of Pallri
FineGrid == Grid(289830000, 771430000, 5000, FineNLat, FineNLon)

Centers == {AREA_BOUNDARIES[a].center : a \in AreaNames}

Points == FarGrid \cup MidGrid \cup FineGrid \cup Centers

----------------------------------------------------------------------------
(* Detection applied to one point *)

NoResult ==
    [primary_area |-> None, all_matching_areas |-> <<>>, nearby_areas |-> <<>>,
     is_on_edge |-> FALSE, distances |-> <<>>]

NoUsers == [u \in {} |-> u]

NoResponse == [kind |-> "none"]

NoCall == [op |-> "none"]

\* the registry as the module builds it at import
Registry ==
    [AREA_BOUNDARIES |-> AREA_BOUNDARIES,
     AREA_BOUNDARIES_OPTIMIZED |-> AREA_BOUNDARIES_OPTIMIZED]

NoTasks == [t \in {} |-> t]

NoRequests == [r \in {} |-> r]

\* no call runs concurrently with another: the registry as imported, no task,
\* no request
NoConcurrent ==
    /\ registry = Registry
    /\ tasks = NoTasks
    /\ requests = NoRequests

InitDetect ==
    /\ \E p \in Points : latitude = p[1] /\ longitude = p[2]
    /\ calls = {}
    /\ fast_result = None
    /\ full_result = NoResult
    /\ include_nearby = FALSE
    /\ users = NoUsers
    /\ response = NoResponse
    /\ call = NoCall
    /\ NoConcurrent

CallFast ==
    /\ "fast" \notin calls
    /\ fast_result' = detect_area_from_coordinates_fast(latitude, longitude)
    /\ calls' = calls \cup {"fast"}
    /\ UNCHANGED <<latitude, longitude, full_result, include_nearby, users, response, call>>
    /\ UNCHANGED concurrent

CallFull ==
    /\ "full" \notin calls
    /\ \E nearby \in BOOLEAN :
           /\ include_nearby' = nearby
           /\ full_result' = detect_area_from_coordinates(latitude, longitude, nearby,
                                                          MAX_UNRECOGNIZED_DISTANCE)
    /\ calls' = calls \cup {"full"}
    /\ UNCHANGED <<latitude, longitude, fast_result, users, response, call>>
    /\ UNCHANGED concurrent

NextDetect == CallFast \/ CallFull

SpecDetect == InitDetect /\ [][NextDetect]_vars

----------------------------------------------------------------------------
(* update_user_location and the "users" collection *)

\* number of user documents
NumUsers == 1

UserIds == 1..NumUsers

\* a document: whether it exists, and its fields (a function from field names)
NoFields == [f \in {} |-> f]

MissingDoc == [exists |-> FALSE, data |-> NoFields]

\* a registered user who has never sent a location
FreshDoc == [exists |-> TRUE, data |-> NoFields]

\* coordinates update_user_location is called with: in the overlap of SBIT and
\* Pallri near SBIT's boundary; in Pallri's buffer ring but nearer to SBIT's
\* center; beyond 10 km of everything; inside Bahalgarh east of its center;
\* a latitude and a longitude out of range
UpdatePoints ==
    {<<289855000, 771515000>>, <<289855000, 771465000>>,
     <<290200000, 769300000>>, <<289460000, 771140000>>,
     <<910000000, 771506293>>, <<289890834, 1810000000>>}

Accuracies == {"5.0"}

ValidLatitude(lat) == -900000000 <= lat /\ lat <= 900000000

ValidLongitude(lon) == -1800000000 <= lon /\ lon <= 1800000000

\* "Detect area": the area_info of either mode
AreaInfo(lat, lon, fast_mode) ==
    IF fast_mode
    THEN LET primary_area == detect_area_from_coordinates_fast(lat, lon)
         IN  [primary_area |-> primary_area,
              all_matching_areas |-> IF primary_area # None THEN <<primary_area>> ELSE <<>>,
              is_on_edge |-> FALSE,
              nearby_areas |-> <<>>]
    ELSE LET r == detect_area_from_coordinates(lat, lon, TRUE, MAX_UNRECOGNIZED_DISTANCE)
         IN  [primary_area |-> r.primary_area,
              all_matching_areas |-> r.all_matching_areas,
              is_on_edge |-> r.is_on_edge,
              nearby_areas |-> r.nearby_areas]

\* AreaInfo at every valid point of UpdatePoints, evaluated once
DetectedAreaInfo ==
    [p \in {q \in UpdatePoints : ValidLatitude(q[1]) /\ ValidLongitude(q[2])} |->
        [fast_mode \in BOOLEAN |-> AreaInfo(p[1], p[2], fast_mode)]]

\* location_data
LocationData(lat, lon, accuracy, fast_mode, area_info) ==
    LET base == [gps_location |-> [latitude |-> lat, longitude |-> lon, accuracy |-> accuracy],
                 current_area |-> area_info.primary_area]
    IN  IF ~fast_mode
        THEN [all_areas |-> area_info.all_matching_areas,
              is_on_area_edge |-> area_info.is_on_edge,
              nearby_areas |-> area_info.nearby_areas] @@ base
        ELSE base

\* a write that replaces the document by the payload
MergeReplace(fields, data) == fields

\* the fields of a document after update(fields) or set(fields, merge=True)
Merge(fields, data) == fields @@ data

\* a write that changes an existing document and creates none
WrittenIfExists(doc, location_data) ==
    IF doc.exists THEN [exists |-> TRUE, data |-> Merge(location_data, doc.data)] ELSE doc

\* the document after a write that succeeded: update() on an existing
\* document, set(merge=True) on an existing or a missing one
Written(doc, location_data) ==
    [exists |-> TRUE, data |-> Merge(location_data, doc.data)]

OtherAreas(area_info) ==
    SelectSeq(area_info.all_matching_areas, LAMBDA a : a # area_info.primary_area)

\* a message that treats every non-null primary_area as the name of an area
MessageNoNearby(area_info, fast_mode) ==
    IF area_info.primary_area # None
    THEN [text |-> "Location updated. You are in {}",
          area |-> area_info.primary_area,
          near_boundary |-> ~fast_mode /\ area_info.is_on_edge,
          overlapping |-> IF ~fast_mode /\ Len(area_info.all_matching_areas) > 1
                          THEN OtherAreas(area_info) ELSE <<>>]
    ELSE [text |-> "Location updated. Not near any defined area",
          area |-> None,
          near_boundary |-> FALSE,
          overlapping |-> <<>>]

\* "Build a friendly message": the sentence, the area it names and its suffixes
\* " (near boundary)" and ". Also overlapping with: ..."
Message(area_info, fast_mode) ==
    IF area_info.primary_area # None
    THEN IF EndsWithNearby(area_info.primary_area)
         THEN [text |-> "Location updated. Near {} (outside main area)",
               area |-> BaseArea(area_info.primary_area),
               near_boundary |-> FALSE,
               overlapping |-> <<>>]
         ELSE [text |-> "Location updated. You are in {}",
               area |-> area_info.primary_area,
               near_boundary |-> ~fast_mode /\ area_info.is_on_edge,
               overlapping |-> IF ~fast_mode /\ Len(area_info.all_matching_areas) > 1
                               THEN OtherAreas(area_info) ELSE <<>>]
    ELSE [text |-> "Location updated. Not near any defined area",
          area |-> None,
          near_boundary |-> FALSE,
          overlapping |-> <<>>]

\* the returned dictionary; kind, fast_mode and user_uid record the call that
\* returned it
UpdateResult(lat, lon, accuracy, fast_mode, area_info) ==
    [kind |-> "return",
     latitude |-> lat,
     longitude |-> lon,
     primary_area |-> area_info.primary_area,
     all_matching_areas |-> area_info.all_matching_areas,
     is_on_edge |-> area_info.is_on_edge,
     nearby_areas |-> area_info.nearby_areas,
     accuracy |-> accuracy,
     message |-> Message(area_info, fast_mode),
     fast_mode |-> fast_mode,
     user_uid |-> 0]

\* the rejection a validation raises with the status of a request that was
\* well-formed but not acceptable
ValidationErrorUnprocessable(detail) ==
    [kind |-> "HTTPException", status_code |-> 422, detail |-> detail]

\* raise HTTPException(status_code=400, detail=...)
ValidationError(detail) ==
    [kind |-> "HTTPException", status_code |-> 400, detail |-> detail]

\* update_user_location(user_uid, lat, lon, accuracy, fast_mode).  update()
\* raises when the document is missing, and may raise for any other reason
\* (update_fails); the handler then calls set(merge=True), which may raise
\* too (set_fails), and that exception leaves the function.
update_user_location(user_uid, lat, lon, accuracy, fast_mode, update_fails, set_fails) ==
    IF ~ValidLatitude(lat)
    THEN /\ response' = ValidationError("Latitude must be between -90 and 90")
         /\ UNCHANGED users
    ELSE IF ~ValidLongitude(lon)
    THEN /\ response' = ValidationError("Longitude must be between -180 and 180")
         /\ UNCHANGED users
    ELSE LET area_info == DetectedAreaInfo[<<lat, lon>>][fast_mode]
             location_data == LocationData(lat, lon, accuracy, fast_mode, area_info)
             doc == users[user_uid]
             written == Written(doc, location_data)
             result == [UpdateResult(lat, lon, accuracy, fast_mode, area_info)
                            EXCEPT !.user_uid = user_uid]
         IN  IF doc.exists /\ ~update_fails
             THEN /\ users' = [users EXCEPT ![user_uid] = written]
                  /\ response' = result
             ELSE IF ~set_fails
             THEN /\ users' = [users EXCEPT ![user_uid] = written]
                  /\ response' = result
             ELSE /\ UNCHANGED users
                  /\ response' = [kind |-> "Exception", status_code |-> 0,
                                  detail |-> "set failed"]

InitUpdate ==
    /\ latitude = 0
    /\ longitude = 0
    /\ calls = {}
    /\ fast_result = None
    /\ full_result = NoResult
    /\ include_nearby = FALSE
    /\ users \in [UserIds -> {MissingDoc, FreshDoc}]
    /\ response = NoResponse
    /\ call = NoCall
    /\ NoConcurrent

UpdateUserLocation ==
    /\ \E user_uid \in UserIds, p \in UpdatePoints, accuracy \in Accuracies,
          fast_mode \in BOOLEAN, update_fails \in BOOLEAN, set_fails \in BOOLEAN :
           /\ update_user_location(user_uid, p[1], p[2], accuracy, fast_mode,
                                   update_fails, set_fails)
           /\ call' = [op |-> "update_user_location", user_uid |-> user_uid,
                       latitude |-> p[1], longitude |-> p[2], accuracy |-> accuracy,
                       fast_mode |-> fast_mode, update_fails |-> update_fails,
                       set_fails |-> set_fails, existed |-> users[user_uid].exists]
    /\ UNCHANGED <<latitude, longitude, calls, fast_result, full_result, include_nearby>>
    /\ UNCHANGED concurrent

NextUpdate == UpdateUserLocation

SpecUpdate == InitUpdate /\ [][NextUpdate]_vars

----------------------------------------------------------------------------
(* Queries over the stored records: get_nearby_users, get_users_in_area,
   is_user_in_area and calculate_delivery_distance *)

NumStoredUsers == 3

\* document ids; query.stream() yields documents in the order of their ids
StoredUserIds == 1..NumStoredUsers

\* user_data.get(f, default)
Get(data, f, default) == IF f \in DOMAIN data THEN data[f] ELSE default

\* the fields a full-mode update at p leaves in a fresh document
FullAt(p) == LocationData(p[1], p[2], "5.0", FALSE, AreaInfo(p[1], p[2], FALSE))

\* the fields after a full-mode update at p and then a fast-mode update at q
FastAfterFull(q, p) ==
    Merge(LocationData(q[1], q[2], "5.0", TRUE, AreaInfo(q[1], q[2], TRUE)), FullAt(p))

\* what the documents of the queried store hold besides is_reachable: nothing;
\* a full-mode update in the overlap of SBIT and Pallri or in Pallri's buffer
\* ring (SBIT_nearby); a fast-mode update inside Bahalgarh after a full-mode
\* one at the center of SBIT
StoredFields ==
    {NoFields,
     FullAt(<<289855000, 771515000>>),
     FullAt(<<289855000, 771465000>>),
     FastAfterFull(<<289460000, 771140000>>, <<289890834, 771506293>>)}

\* the connectivity service keeps is_reachable in the same document
WithReachable(fields, is_reachable) == [is_reachable |-> is_reachable] @@ fields

StoredDocs ==
    {MissingDoc}
      \cup {[exists |-> TRUE, data |-> WithReachable(f, TRUE)] : f \in StoredFields}
      \cup {[exists |-> TRUE,
              data |-> WithReachable(FullAt(<<289855000, 771515000>>), FALSE)]}

\* users_ref.where("is_reachable", "==", True) yields this document
Streamed(doc) == doc.exists /\ Get(doc.data, "is_reachable", FALSE) = TRUE

\* one element of nearby_users (email, name and distance_km are left out)
NearbyUser(uid, data, distance) ==
    [uid |-> uid,
     current_area |-> Get(data, "current_area", None),
     all_areas |-> Get(data, "all_areas", <<>>),
     is_on_edge |-> Get(data, "is_on_area_edge", FALSE),
     distance_meters |-> Round2(distance),
     gps_accuracy |-> data.gps_location.accuracy]

\* the loop of get_nearby_users from document i on
RECURSIVE NearbyUsersFrom(_, _, _, _, _)
NearbyUsersFrom(store, i, lat, lon, radius_m) ==
    IF i \notin DOMAIN store THEN <<>>
    ELSE LET user_data == store[i].data
             rest == NearbyUsersFrom(store, i + 1, lat, lon, radius_m)
         IN  IF ~Streamed(store[i]) THEN rest
             ELSE IF "gps_location" \notin DOMAIN user_data THEN rest
             ELSE LET distance == calculate_distance_meters(
                                      lat, lon, user_data.gps_location.latitude,
                                      user_data.gps_location.longitude)
                  IN  IF distance <= radius_m
                      THEN <<NearbyUser(i, user_data, distance)>> \o rest
                      ELSE rest

\* x placed behind the elements of a sorted list whose key is not greater
RECURSIVE InsertByDistance(_, _)
InsertByDistance(sorted, x) ==
    IF sorted = <<>> THEN <<x>>
    ELSE IF Head(sorted).distance_meters <= x.distance_meters
    THEN <<Head(sorted)>> \o InsertByDistance(Tail(sorted), x)
    ELSE <<x>> \o sorted

\* the first n elements of seq, sorted
RECURSIVE SortedPrefix(_, _)
SortedPrefix(seq, n) ==
    IF n = 0 THEN <<>> ELSE InsertByDistance(SortedPrefix(seq, n - 1), seq[n])

\* a list left in the order of the stream
SortByDistanceSkipped(seq) == seq

\* nearby_users.sort(key=distance_meters): stable
SortByDistance(seq) == SortedPrefix(seq, Len(seq))

\* nearby_users[:max_results]
Truncate(seq, max_results) ==
    IF Len(seq) <= max_results THEN seq ELSE SubSeq(seq, 1, max_results)

get_nearby_users(store, lat, lon, radius_m, max_results) ==
    Truncate(SortByDistance(NearbyUsersFrom(store, 1, lat, lon, radius_m)), max_results)

\* a match on current_area alone
IsMatchCurrentOnly(user_data, area_name) ==
    Get(user_data, "current_area", None) = area_name

\* is_match, the same expression in get_users_in_area and in is_user_in_area
IsMatch(user_data, area_name) ==
    \/ Get(user_data, "current_area", None) = area_name
    \/ area_name \in {Get(user_data, "all_areas", <<>>)[k] :
                          k \in 1..Len(Get(user_data, "all_areas", <<>>))}

\* one element of users_in_area (email and name are left out)
UserInArea(uid, data) ==
    [uid |-> uid,
     current_area |-> Get(data, "current_area", None),
     all_areas |-> Get(data, "all_areas", <<>>),
     is_on_edge |-> Get(data, "is_on_area_edge", FALSE)]

\* the loop of get_users_in_area from document i on
RECURSIVE UsersInAreaFrom(_, _, _, _)
UsersInAreaFrom(store, i, area_name, include_edge_users) ==
    IF i \notin DOMAIN store THEN <<>>
    ELSE LET user_data == store[i].data
             rest == UsersInAreaFrom(store, i + 1, area_name, include_edge_users)
         IN  IF ~Streamed(store[i]) THEN rest
             ELSE IF /\ IsMatch(user_data, area_name)
                     /\ (include_edge_users \/ ~Get(user_data, "is_on_area_edge", FALSE))
             THEN <<UserInArea(i, user_data)>> \o rest
             ELSE rest

get_users_in_area(store, area_name, include_edge_users) ==
    UsersInAreaFrom(store, 1, area_name, include_edge_users)

is_user_in_area(store, user_uid, area_name) ==
    IF user_uid \notin DOMAIN store \/ ~store[user_uid].exists
    THEN [kind |-> "return", is_in_area |-> FALSE, reason |-> "User not found"]
    ELSE LET user_data == store[user_uid].data
         IN  [kind |-> "return",
              is_in_area |-> IsMatch(user_data, area_name),
              primary_area |-> Get(user_data, "current_area", None),
              all_matching_areas |-> Get(user_data, "all_areas", <<>>),
              is_on_edge |-> Get(user_data, "is_on_area_edge", FALSE),
              requested_area |-> area_name]

\* endpoints of a delivery: the valid points of the updates, the centers of
\* the areas, a point in Bahalgarh's buffer ring and a second point beyond
\* 10 km of every area
DeliveryPoints ==
    DOMAIN DetectedAreaInfo \cup Centers
        \cup {<<289470954, 771168000>>, <<290300000, 769400000>>}

\* detect_area_from_coordinates with its defaults at every delivery point,
\* evaluated once
DeliveryAreaInfo ==
    [p \in DeliveryPoints |->
        detect_area_from_coordinates(p[1], p[2], FALSE, MAX_UNRECOGNIZED_DISTANCE)]

\* primary areas compared after their "_nearby" suffix is dropped
CrossesAreasByBase(pickup_primary, drop_primary) ==
    BaseArea(pickup_primary) # BaseArea(drop_primary)

\* pickup_primary != drop_primary
CrossesAreas(pickup_primary, drop_primary) == pickup_primary # drop_primary

\* distance_km is left out
calculate_delivery_distance(pickup_location, drop_location) ==
    LET distance_m == calculate_distance_meters(pickup_location[1], pickup_location[2],
                                                drop_location[1], drop_location[2])
        pickup_primary == DeliveryAreaInfo[pickup_location].primary_area
        drop_primary == DeliveryAreaInfo[drop_location].primary_area
    IN  [kind |-> "return",
         distance_meters |-> Round2(distance_m),
         pickup_area |-> pickup_primary,
         drop_area |-> drop_primary,
         crosses_areas |-> CrossesAreas(pickup_primary, drop_primary)]

\* where proximity is asked: the center of SBIT and a point inside Bahalgarh
QueryPoints == {<<289890834, 771506293>>, <<289460000, 771140000>>}

\* radius_m: 600 m and the default 5000 m
QueryRadii == {600000, 5000000}

\* max_results: 1 and the default 50
QueryMaxResults == {1, 50}

\* area names asked for: registered ones, a "_nearby" label, an unknown name
QueryAreaNames == {"SBIT", "Pallri", "SBIT_nearby", "Nowhere"}

InitQuery ==
    /\ latitude = 0
    /\ longitude = 0
    /\ calls = {}
    /\ fast_result = None
    /\ full_result = NoResult
    /\ include_nearby = FALSE
    /\ users \in [StoredUserIds -> StoredDocs]
    /\ response = NoResponse
    /\ call = NoCall
    /\ NoConcurrent

Unqueried == <<latitude, longitude, calls, fast_result, full_result, include_nearby, users>>

GetNearbyUsers ==
    /\ \E p \in QueryPoints, radius_m \in QueryRadii, max_results \in QueryMaxResults :
           /\ response' = [kind |-> "return",
                           users |-> get_nearby_users(users, p[1], p[2], radius_m, max_results)]
           /\ call' = [op |-> "get_nearby_users", latitude |-> p[1], longitude |-> p[2],
                       radius_m |-> radius_m, max_results |-> max_results]
    /\ UNCHANGED Unqueried
    /\ UNCHANGED concurrent

GetUsersInArea ==
    /\ \E area_name \in QueryAreaNames, include_edge_users \in BOOLEAN :
           /\ response' = [kind |-> "return",
                           users |-> get_users_in_area(users, area_name, include_edge_users)]
           /\ call' = [op |-> "get_users_in_area", area_name |-> area_name,
                       include_edge_users |-> include_edge_users]
    /\ UNCHANGED Unqueried
    /\ UNCHANGED concurrent

\* user 0 has no document and never had one
IsUserInArea ==
    /\ \E user_uid \in StoredUserIds \cup {0}, area_name \in QueryAreaNames :
           /\ response' = is_user_in_area(users, user_uid, area_name)
           /\ call' = [op |-> "is_user_in_area", user_uid |-> user_uid,
                       area_name |-> area_name]
    /\ UNCHANGED Unqueried
    /\ UNCHANGED concurrent

NextQuery == GetNearbyUsers \/ GetUsersInArea \/ IsUserInArea

SpecQuery == InitQuery /\ [][NextQuery]_vars

InitDelivery ==
    /\ latitude = 0
    /\ longitude = 0
    /\ calls = {}
    /\ fast_result = None
    /\ full_result = NoResult
    /\ include_nearby = FALSE
    /\ users = NoUsers
    /\ response = NoResponse
    /\ call = NoCall
    /\ NoConcurrent

CalculateDeliveryDistance ==
    /\ \E pickup \in DeliveryPoints, drop \in DeliveryPoints :
           /\ response' = calculate_delivery_distance(pickup, drop)
           /\ call' = [op |-> "calculate_delivery_distance", pickup |-> pickup, drop |-> drop]
    /\ UNCHANGED Unqueried
    /\ UNCHANGED concurrent

NextDelivery == CalculateDeliveryDistance

SpecDelivery == InitDelivery /\ [][NextDelivery]_vars

----------------------------------------------------------------------------
(* Bulk location update: bulk_location_update_endpoint of main.py *)

MaxBulk == 3

\* the users the entries of a request name
BulkUserIds == {1, 2}

\* an entry of the list, a dictionary; update_fails tells whether the store
\* rejects the write of the entry
BulkEntry(user_uid, p, update_fails) ==
    [user_uid |-> user_uid, latitude |-> p[1], longitude |-> p[2],
     update_fails |-> update_fails]

\* an entry without the key f
Without(update, f) == [k \in DOMAIN update \ {f} |-> update[k]]

\* entries without a user id and without a longitude, and entries of both
\* users in the overlap of SBIT and Pallri and inside Bahalgarh, one of them
\* with a write the store rejects
BulkEntries ==
    {Without(BulkEntry(1, <<289855000, 771515000>>, FALSE), "user_uid"),
     Without(BulkEntry(1, <<289855000, 771515000>>, FALSE), "longitude"),
     BulkEntry(1, <<289855000, 771515000>>, FALSE),
     BulkEntry(1, <<289460000, 771140000>>, TRUE),
     BulkEntry(2, <<289460000, 771140000>>, FALSE),
     BulkEntry(2, <<289855000, 771515000>>, FALSE),
     BulkEntry(2, <<289855000, 771515000>>, TRUE)}

\* the lists of at most n entries
RECURSIVE BulkLists(_)
BulkLists(n) ==
    IF n = 0 THEN {<<>>}
    ELSE BulkLists(n - 1)
           \cup {Append(l, e) : l \in {m \in BulkLists(n - 1) : Len(m) = n - 1},
                                e \in BulkEntries}

\* the documents of the two users before the request: none, one without a
\* location, one left by a full-mode update in Pallri's buffer ring
BulkDocs ==
    {MissingDoc, FreshDoc, [exists |-> TRUE, data |-> FullAt(<<289855000, 771465000>>)]}

\* `not user_uid or lat is None or lon is None`, update.get() being None for
\* a key the entry does not have
InvalidUpdate(update) ==
    {"user_uid", "latitude", "longitude"} \ DOMAIN update # {}

\* the fields user_ref.update() is given
BulkLocationData(update) ==
    [gps_location |-> [latitude |-> update.latitude, longitude |-> update.longitude],
     current_area |-> DetectedAreaInfo[<<update.latitude, update.longitude>>][TRUE].primary_area]

\* the loop stopped at the first entry in error
NextAfterErrorAbort(updates, i) == Len(updates) + 1

\* `continue`, and the end of the except clause: on to the next entry
NextAfterError(updates, i) == i + 1

\* the loop from entry i on
RECURSIVE BulkFrom(_, _, _, _, _)
BulkFrom(store, updates, i, results, errors) ==
    IF i > Len(updates)
    THEN [users |-> store, results |-> results, errors |-> errors]
    ELSE LET update == updates[i]
         IN  IF InvalidUpdate(update)
             THEN BulkFrom(store, updates, NextAfterError(updates, i), results,
                           Append(errors, [error |-> "Invalid update", update |-> update]))
             ELSE IF ~store[update.user_uid].exists \/ update.update_fails
             THEN BulkFrom(store, updates, NextAfterError(updates, i), results,
                           Append(errors, [error |-> "Error for", update |-> update]))
             ELSE BulkFrom([store EXCEPT ![update.user_uid] =
                                [exists |-> TRUE,
                                 data |-> Merge(BulkLocationData(update), @.data)]],
                           updates, i + 1,
                           Append(results,
                                  [user_uid |-> update.user_uid,
                                   area |-> BulkLocationData(update).current_area,
                                   success |-> TRUE]),
                           errors)

bulk_location_update_endpoint(updates) ==
    LET done == BulkFrom(users, updates, 1, <<>>, <<>>)
    IN  /\ users' = done.users
        /\ response' = [kind |-> "return",
                        total_updates |-> Len(updates),
                        successful |-> Len(done.results),
                        failed |-> Len(done.errors),
                        results |-> done.results,
                        errors |-> done.errors]

\* a request is in flight: call holds the submitted list
InitBulk ==
    /\ latitude = 0
    /\ longitude = 0
    /\ calls = {}
    /\ fast_result = None
    /\ full_result = NoResult
    /\ include_nearby = FALSE
    /\ users \in [BulkUserIds -> BulkDocs]
    /\ response = NoResponse
    /\ NoConcurrent
    /\ \E updates \in BulkLists(MaxBulk) :
           call = [op |-> "bulk_location_update_endpoint", updates |-> updates]

\* the handler runs once for a request
BulkLocationUpdate ==
    /\ response = NoResponse
    /\ bulk_location_update_endpoint(call.updates)
    /\ UNCHANGED <<latitude, longitude, calls, fast_result, full_result, include_nearby, call>>
    /\ UNCHANGED concurrent

NextBulk == BulkLocationUpdate

SpecBulk == InitBulk /\ [][NextBulk]_vars

----------------------------------------------------------------------------
(* calculate_distance_meters called on its own *)

\* the points of the delivery queries: the centers, points inside areas, in
\* rings and beyond 10 km
DistancePoints == DeliveryPoints

InitDistance ==
    /\ latitude = 0
    /\ longitude = 0
    /\ calls = {}
    /\ fast_result = None
    /\ full_result = NoResult
    /\ include_nearby = FALSE
    /\ users = NoUsers
    /\ response = NoResponse
    /\ call = NoCall
    /\ NoConcurrent

CalculateDistanceMeters ==
    /\ \E a \in DistancePoints, b \in DistancePoints :
           /\ response' = [kind |-> "return",
                           distance |-> calculate_distance_meters(a[1], a[2], b[1], b[2])]
           /\ call' = [op |-> "calculate_distance_meters", lat1 |-> a[1], lon1 |-> a[2],
                       lat2 |-> b[1], lon2 |-> b[2]]
    /\ UNCHANGED Unqueried
    /\ UNCHANGED concurrent

NextDistance == CalculateDistanceMeters

SpecDistance == InitDistance /\ [][NextDistance]_vars

----------------------------------------------------------------------------
(* Concurrent calls of the detection functions.  Each call is a task with its
   own local variables; a step is one iteration of a loop over the registry,
   or the code after the loop, and the steps of different tasks interleave. *)

NumTasks == 2

TaskIds == 1..NumTasks

\* where the concurrent calls detect: the overlap of SBIT and Pallri, Pallri's
\* buffer ring nearer to SBIT's center, beyond 10 km of everything, inside
\* Bahalgarh
TaskPoints ==
    {<<289855000, 771515000>>, <<289855000, 771465000>>,
     <<290200000, 769300000>>, <<289460000, 771140000>>}

\* a call that has not run yet: matching_areas = [], distances_calculated = {}
NewTask(fn, p) ==
    [fn |-> fn, latitude |-> p[1], longitude |-> p[2], pc |-> "loop", i |-> 1,
     matching_areas |-> <<>>, distances_calculated |-> [a \in {} |-> 0],
     result |-> None]

\* the list of a module shared by every call
MatchingAreasShared(t) == 1

\* matching_areas is a local variable: the list task t appends to is its own
MatchingAreasOf(t) == t

\* one iteration of "First pass: compute distances to all area centers"
FullPass(t) ==
    LET task == tasks[t]
        area_name == AreaOrder[task.i]
        boundary == registry.AREA_BOUNDARIES[area_name]
        distance == calculate_distance_meters(task.latitude, task.longitude,
                                              boundary.center[1], boundary.center[2])
        own == MatchingAreasOf(t)
        stepped == [tasks EXCEPT ![t].i = @ + 1,
                                 ![t].distances_calculated = (area_name :> distance) @@ @]
    IN  /\ task.fn = "full"
        /\ task.pc = "loop"
        /\ task.i <= Len(AreaOrder)
        /\ tasks' = IF distance <= boundary.radius_m
                    THEN [stepped EXCEPT ![own].matching_areas = Append(@, area_name)]
                    ELSE stepped
        /\ UNCHANGED registry

\* the code of detect_area_from_coordinates after the first pass
FullDecide(t) ==
    LET task == tasks[t]
        D == task.distances_calculated
        matching_areas == tasks[MatchingAreasOf(t)].matching_areas
        b == IF matching_areas # <<>> THEN StrictBranch(D, matching_areas)
             ELSE FallbackBranch(D, MAX_UNRECOGNIZED_DISTANCE)
    IN  /\ task.fn = "full"
        /\ task.pc = "loop"
        /\ task.i > Len(AreaOrder)
        /\ tasks' = [tasks EXCEPT
                        ![t].pc = "returned",
                        ![t].result =
                            [primary_area |-> b.primary_area,
                             all_matching_areas |-> b.matching_areas,
                             nearby_areas |-> NearbyAreas(D, b.matching_areas, FALSE),
                             is_on_edge |-> b.is_on_edge,
                             distances |-> ReturnDistances(D, b.matching_areas)]]
        /\ UNCHANGED registry

\* one iteration of the containment loop of detect_area_from_coordinates_fast
FastPass(t) ==
    LET task == tasks[t]
        area_name == AreaOrder[task.i]
        boundary == registry.AREA_BOUNDARIES_OPTIMIZED[area_name]
        quick_check == quick_distance_check(task.latitude, task.longitude,
                                            boundary.center[1], boundary.center[2],
                                            boundary.radius_with_buffer)
        distance == calculate_distance_meters(task.latitude, task.longitude,
                                              boundary.center[1], boundary.center[2])
    IN  /\ task.fn = "fast"
        /\ task.pc = "loop"
        /\ task.i <= Len(AreaOrder)
        /\ tasks' = IF quick_check # "False" /\ FastContains(distance, boundary)
                    THEN [tasks EXCEPT ![t].pc = "returned", ![t].result = area_name]
                    ELSE [tasks EXCEPT ![t].i = @ + 1]
        /\ UNCHANGED registry

\* the nearest-center loop of detect_area_from_coordinates_fast and its return
FastDecide(t) ==
    /\ tasks[t].fn = "fast"
    /\ tasks[t].pc = "loop"
    /\ tasks[t].i > Len(AreaOrder)
    /\ tasks' = [tasks EXCEPT
                    ![t].pc = "returned",
                    ![t].result = FastNearest(tasks[t].latitude, tasks[t].longitude)]
    /\ UNCHANGED registry

InitConcurrent ==
    /\ latitude = 0
    /\ longitude = 0
    /\ calls = {}
    /\ fast_result = None
    /\ full_result = NoResult
    /\ include_nearby = FALSE
    /\ users = NoUsers
    /\ response = NoResponse
    /\ call = NoCall
    /\ registry = Registry
    /\ tasks \in [TaskIds -> {NewTask(fn, p) : fn \in {"fast", "full"}, p \in TaskPoints}]
    /\ requests = NoRequests

NextConcurrent ==
    /\ \E t \in TaskIds : FullPass(t) \/ FullDecide(t) \/ FastPass(t) \/ FastDecide(t)
    /\ UNCHANGED <<latitude, longitude, calls, fast_result, full_result, include_nearby,
                   users, response, call, requests>>

SpecConcurrent == InitConcurrent /\ [][NextConcurrent]_vars

----------------------------------------------------------------------------
(* The requests collection.  A handler is a task; a step is one operation on
   the database with the code that follows it up to the next operation, and
   the steps of different handlers interleave (several server processes work
   on one database). *)

NumCalls == 3

CallIds == 1..NumCalls

\* the users who call; u1 posts
RequestUsers == {"u1", "u2", "u3"}

Posters == {"u1"}

\* uuid4 gives a fresh id: one request is followed
RequestId == "r1"

\* RequestStatus
Statuses == {"open", "accepted", "completed", "cancelled"}

\* a handler that has not been called yet
NewCall ==
    [op |-> None, user_uid |-> None, new_status |-> None, pc |-> "idle",
     snapshot |-> [exists |-> FALSE], result |-> None]

\* request_ref.get(): the snapshot of the document
Snapshot ==
    IF RequestId \in DOMAIN requests
    THEN [exists |-> TRUE, data |-> requests[RequestId]]
    ELSE [exists |-> FALSE]

\* datetime.now(): later than every timestamp stored
Now == IF RequestId \in DOMAIN requests THEN requests[RequestId].updated_at + 1 ELSE 1

\* the calls are started in the order of their ids
MayStart(t) ==
    /\ tasks[t].pc = "idle"
    /\ IF t = 1 THEN TRUE ELSE tasks[t - 1].pc # "idle"

Returns(t, result) == [tasks EXCEPT ![t].pc = "done", ![t].result = result]

\* request_document of create_request; deadline tells whether one was given
RequestDocument(user_uid, deadline) ==
    [posted_by |-> user_uid, status |-> "open", accepted_by |-> None,
     deadline |-> deadline, is_expired |-> FALSE, updated_at |-> Now]

CreateRequest(t) ==
    /\ MayStart(t)
    /\ RequestId \notin DOMAIN requests
    /\ \E user_uid \in Posters, deadline \in BOOLEAN :
           /\ requests' = (RequestId :> RequestDocument(user_uid, deadline))
           /\ tasks' = [Returns(t, "ok") EXCEPT ![t].op = "create_request",
                                                ![t].user_uid = user_uid]
    /\ UNCHANGED registry

\* update_in_transaction up to transaction.update: the read and the checks;
\* run when accept_request is called and again after a failed commit
AcceptRead(t) ==
    /\ MayStart(t) \/ tasks[t].pc = "retry"
    /\ \E user_uid \in IF tasks[t].pc = "idle" THEN RequestUsers ELSE {tasks[t].user_uid} :
           LET snapshot == Snapshot
               called == [tasks EXCEPT ![t].op = "accept_request",
                                       ![t].user_uid = user_uid,
                                       ![t].snapshot = snapshot]
           IN  tasks' =
                   IF ~snapshot.exists
                   THEN [called EXCEPT ![t].pc = "done", ![t].result = "404"]
                   ELSE IF snapshot.data.status # "open"
                   THEN [called EXCEPT ![t].pc = "done", ![t].result = "400"]
                   ELSE IF snapshot.data.posted_by = user_uid
                   THEN [called EXCEPT ![t].pc = "done", ![t].result = "400"]
                   ELSE [called EXCEPT ![t].pc = "commit"]
    /\ UNCHANGED <<registry, requests>>

\* a transaction that never finds its document changed
ConflictIgnored(t) == FALSE

\* the document was written after the transaction read it
Conflict(t) == Snapshot # tasks[t].snapshot

\* the commit of the transaction: the update is applied unless the document
\* changed since the read, and then the function is run again
AcceptCommit(t) ==
    /\ tasks[t].pc = "commit"
    /\ IF Conflict(t)
       THEN /\ tasks' = [tasks EXCEPT ![t].pc = "retry"]
            /\ UNCHANGED requests
       ELSE /\ requests' = [requests EXCEPT ![RequestId].status = "accepted",
                                            ![RequestId].accepted_by = tasks[t].user_uid,
                                            ![RequestId].updated_at = Now]
            /\ tasks' = Returns(t, "ok")
    /\ UNCHANGED registry

valid_transitions ==
    [open |-> {"accepted", "cancelled"}, accepted |-> {"completed", "cancelled"},
     completed |-> {}, cancelled |-> {}]

\* update_request_status up to request_ref.update: the read and the checks
UpdateStatusRead(t) ==
    /\ MayStart(t)
    /\ \E user_uid \in RequestUsers, new_status \in Statuses :
           LET doc == Snapshot
               called == [tasks EXCEPT ![t].op = "update_request_status",
                                       ![t].user_uid = user_uid,
                                       ![t].new_status = new_status,
                                       ![t].snapshot = doc]
               is_poster == doc.data.posted_by = user_uid
               is_acceptor == doc.data.accepted_by = user_uid
           IN  tasks' =
                   IF ~doc.exists
                   THEN [called EXCEPT ![t].pc = "done", ![t].result = "404"]
                   ELSE IF ~(is_poster \/ is_acceptor)
                   THEN [called EXCEPT ![t].pc = "done", ![t].result = "403"]
                   ELSE IF new_status \notin valid_transitions[doc.data.status]
                   THEN [called EXCEPT ![t].pc = "done", ![t].result = "400"]
                   ELSE [called EXCEPT ![t].pc = "update"]
    /\ UNCHANGED <<registry, requests>>

\* request_ref.update(update_data) and the return
UpdateStatusWrite(t) ==
    /\ tasks[t].op = "update_request_status"
    /\ tasks[t].pc = "update"
    /\ requests' = [requests EXCEPT ![RequestId].status = tasks[t].new_status,
                                    ![RequestId].updated_at = Now]
    /\ tasks' = Returns(t, "ok")
    /\ UNCHANGED registry

\* mark_expired_requests up to doc.reference.update: the query and the test of
\* the deadline; whether a deadline has passed is the clock's choice
MarkExpiredQuery(t) ==
    /\ MayStart(t)
    /\ \E passed \in BOOLEAN :
           LET doc == Snapshot
               called == [tasks EXCEPT ![t].op = "mark_expired_requests",
                                       ![t].snapshot = doc]
               streamed == /\ doc.exists
                           /\ doc.data.status \in {"open", "accepted"}
                           /\ ~doc.data.is_expired
           IN  tasks' =
                   IF streamed /\ doc.data.deadline /\ passed
                   THEN [called EXCEPT ![t].pc = "update"]
                   ELSE [called EXCEPT ![t].pc = "done", ![t].result = "0"]
    /\ UNCHANGED <<registry, requests>>

\* doc.reference.update of mark_expired_requests and the return
MarkExpiredUpdate(t) ==
    /\ tasks[t].op = "mark_expired_requests"
    /\ tasks[t].pc = "update"
    /\ requests' = [requests EXCEPT ![RequestId].is_expired = TRUE,
                                    ![RequestId].status = "cancelled",
                                    ![RequestId].updated_at = Now]
    /\ tasks' = Returns(t, "1")
    /\ UNCHANGED registry

InitRequests ==
    /\ latitude = 0
    /\ longitude = 0
    /\ calls = {}
    /\ fast_result = None
    /\ full_result = NoResult
    /\ include_nearby = FALSE
    /\ users = NoUsers
    /\ response = NoResponse
    /\ call = NoCall
    /\ registry = Registry
    /\ tasks = [t \in CallIds |-> NewCall]
    /\ requests = NoRequests

NextRequests ==
    /\ \E t \in CallIds :
           \/ CreateRequest(t)
           \/ AcceptRead(t)
           \/ AcceptCommit(t)
           \/ UpdateStatusRead(t)
           \/ UpdateStatusWrite(t)
           \/ MarkExpiredQuery(t)
           \/ MarkExpiredUpdate(t)
    /\ UNCHANGED <<latitude, longitude, calls, fast_result, full_result, include_nearby,
                   users, response, call>>

SpecRequests == InitRequests /\ [][NextRequests]_vars

----------------------------------------------------------------------------
(* Vocabulary of the properties of detection *)

FastDone == "fast" \in calls

FullDone == "full" \in calls

Radius(a) == AREA_BOUNDARIES[a].radius_m

\* the distance from the point of the call to the center of area a
Dist(a) == CenterDistance(latitude, longitude, a)

\* the areas whose own circle contains the point of the call
StrictSet == {a \in AreaNames : Dist(a) <= Radius(a)}

SeqToSet(seq) == {seq[i] : i \in 1..Len(seq)}

\* position of an area in the registry
RegistryIndex(a) == CHOOSE i \in 1..Len(AreaOrder) : AreaOrder[i] = a

\* the areas whose center is nearest to the point of the call
NearestSet == {n \in AreaNames : \A a \in AreaNames : Dist(n) <= Dist(a)}

----------------------------------------------------------------------------
(* C1: in full mode, when at least one area strictly contains the point, the
   primary area is one of the strictly containing areas and no strictly
   containing area is nearer to the point. *)
C1_ClosestWins ==
    (FullDone /\ StrictSet # {}) =>
        /\ full_result.primary_area \in StrictSet
        /\ \A b \in StrictSet : Dist(full_result.primary_area) <= Dist(b)

\* two areas contain the point and the primary one is not the first of them
\* in the registry
C1_Witness ==
    /\ FullDone
    /\ Cardinality(StrictSet) >= 2
    /\ \E b \in StrictSet : RegistryIndex(b) < RegistryIndex(full_result.primary_area)

(* C2: in full mode, when no area strictly contains the point, the area N of
   nearest center and its distance d decide: beyond 10 km the primary area is
   null, nothing matches and the point is not on an edge; within N's radius
   plus the buffer N is the primary area and the only matching area, on the
   edge; otherwise the primary area is "N_nearby", nothing matches and the
   point is not on an edge. *)
C2_FallbackByNearest ==
    (FullDone /\ StrictSet = {}) =>
        \E n \in NearestSet :
            IF Dist(n) > MAX_UNRECOGNIZED_DISTANCE
            THEN /\ full_result.primary_area = None
                 /\ full_result.all_matching_areas = <<>>
                 /\ full_result.is_on_edge = FALSE
            ELSE IF Dist(n) <= Radius(n) + BUFFER_ZONE_METERS
            THEN /\ full_result.primary_area = n
                 /\ full_result.all_matching_areas = <<n>>
                 /\ full_result.is_on_edge = TRUE
            ELSE /\ full_result.primary_area = Nearby(n)
                 /\ full_result.all_matching_areas = <<>>
                 /\ full_result.is_on_edge = FALSE

\* a point in the buffer ring of the area of nearest center, in no circle
C2_Witness ==
    /\ FullDone
    /\ StrictSet = {}
    /\ full_result.is_on_edge
    /\ Len(full_result.all_matching_areas) = 1

(* C3: in full mode, a point in no area's circle that lies in the buffer ring
   of an area A (radius < distance <= radius + buffer) has A among the
   matching areas and is on the edge, whichever center is nearest. *)
C3_BufferRingMatches ==
    (FullDone /\ StrictSet = {}) =>
        \A a \in AreaNames :
            (Radius(a) < Dist(a) /\ Dist(a) <= Radius(a) + BUFFER_ZONE_METERS) =>
                /\ a \in SeqToSet(full_result.all_matching_areas)
                /\ full_result.is_on_edge = TRUE

(* C4: in full mode, when at least one area strictly contains the point, the
   point is on the edge exactly when the primary area's distance is at least
   its radius minus the buffer, whatever the other matching areas are. *)
C4_EdgeOfPrimary ==
    (FullDone /\ StrictSet # {}) =>
        (full_result.is_on_edge <=>
            Dist(full_result.primary_area)
                >= Radius(full_result.primary_area) - BUFFER_ZONE_METERS)

\* two areas contain the point; it is within the buffer of the boundary of one
\* that is not primary, and not on the edge
C4_Witness ==
    /\ FullDone
    /\ Cardinality(StrictSet) >= 2
    /\ ~full_result.is_on_edge
    /\ \E b \in StrictSet :
           /\ b # full_result.primary_area
           /\ Dist(b) >= Radius(b) - BUFFER_ZONE_METERS

(* C5: a point in exactly one area's circle, more than the buffer inside it,
   gets that area's bare name from fast mode and as primary area from full
   mode, which reports it not on the edge. *)
C5_FastAgreesInside ==
    (FastDone /\ FullDone) =>
        \A a \in AreaNames :
            (StrictSet = {a} /\ Dist(a) < Radius(a) - BUFFER_ZONE_METERS) =>
                /\ fast_result = a
                /\ full_result.primary_area = a
                /\ full_result.is_on_edge = FALSE

(* C6: in fast mode, when at least one area strictly contains the point, the
   result is the bare name of the first such area in registry order. *)
C6_FastFirstInRegistry ==
    (FastDone /\ StrictSet # {}) =>
        /\ fast_result \in StrictSet
        /\ \A b \in StrictSet : RegistryIndex(fast_result) <= RegistryIndex(b)

(* C7: in fast mode, when the containment loop returns no area, the result is
   "N_nearby" for the area N of nearest center if that distance is at most
   10 km, and null otherwise; a point beyond 10 km of every center gets null
   from fast mode and a null primary area from full mode. *)
C7_FastFallback ==
    /\ (FastDone /\ fast_result \notin AreaNames) =>
           \E n \in NearestSet :
               fast_result = IF Dist(n) <= MAX_UNRECOGNIZED_DISTANCE THEN Nearby(n) ELSE None
    /\ (\A a \in AreaNames : Dist(a) > MAX_UNRECOGNIZED_DISTANCE) =>
           /\ FastDone => fast_result = None
           /\ FullDone => full_result.primary_area = None

\* both modes have answered for a point beyond 10 km of every center
C7_Witness ==
    /\ FastDone
    /\ FullDone
    /\ \A a \in AreaNames : Dist(a) > MAX_UNRECOGNIZED_DISTANCE
    /\ fast_result = None

(* C8: in full mode, the point at the registered center of an area whose
   radius exceeds the buffer has that area as primary area and as the only
   matching area, and is not on the edge. *)
C8_CenterDetected ==
    FullDone =>
        \A a \in AreaNames :
            (<<latitude, longitude>> = AREA_BOUNDARIES[a].center
                    /\ Radius(a) > BUFFER_ZONE_METERS) =>
                /\ full_result.primary_area = a
                /\ full_result.all_matching_areas = <<a>>
                /\ full_result.is_on_edge = FALSE

\* full mode has answered for SBIT's center
C8_Witness ==
    /\ FullDone
    /\ <<latitude, longitude>> = AREA_BOUNDARIES["SBIT"].center
    /\ full_result.primary_area = "SBIT"

(* C9: every element of the all_matching_areas that update_user_location
   returns, in fast or in full mode, is a registered area name: never a
   "_nearby" label and never null. *)
C9_MatchingAreRegistered ==
    response.kind = "return" =>
        \A i \in 1..Len(response.all_matching_areas) :
            response.all_matching_areas[i] \in AreaNames

\* the areas listed in nearby_areas
NearbyNames == {full_result.nearby_areas[i].area : i \in 1..Len(full_result.nearby_areas)}

\* the registered areas outside all_matching_areas within radius plus buffer
ExpectedNearby ==
    {a \in AreaNames \ SeqToSet(full_result.all_matching_areas) :
        Dist(a) <= Radius(a) + BUFFER_ZONE_METERS}

\* nearby_areas lists exactly the expected areas, once each, when requested
NearbyMembership ==
    /\ include_nearby =>
           /\ NearbyNames = ExpectedNearby
           /\ Len(full_result.nearby_areas) = Cardinality(NearbyNames)
    /\ ~include_nearby => full_result.nearby_areas = <<>>
    /\ NearbyNames \cap SeqToSet(full_result.all_matching_areas) = {}

(* C10 as stated: in full mode nearby_areas holds, when requested, exactly the
   registered areas outside all_matching_areas whose distance is at most
   radius plus buffer, each with distance_from_edge equal to distance minus
   radius; it is empty when not requested; it is disjoint from
   all_matching_areas. *)
C10_NearbyExact ==
    FullDone =>
        /\ NearbyMembership
        /\ \A i \in 1..Len(full_result.nearby_areas) :
               LET e == full_result.nearby_areas[i]
               IN  e.distance_from_edge = Dist(e.area) - Radius(e.area)

(* C10 as amended: the same, with distance_from_edge equal to distance minus
   radius rounded to two decimals (and distance_meters the rounded distance). *)
C10_NearbyRounded ==
    FullDone =>
        /\ NearbyMembership
        /\ \A i \in 1..Len(full_result.nearby_areas) :
               LET e == full_result.nearby_areas[i]
               IN  /\ e.distance_from_edge = Round2(Dist(e.area) - Radius(e.area))
                   /\ e.distance_meters = Round2(Dist(e.area))

\* nearby areas were requested for a point in no circle, and one is listed
\* whose distance from the edge is not a whole number of centimetres
C10_Witness ==
    /\ FullDone
    /\ include_nearby
    /\ full_result.all_matching_areas = <<>>
    /\ \E i \in 1..Len(full_result.nearby_areas) :
           LET e == full_result.nearby_areas[i]
           IN  e.distance_from_edge # Dist(e.area) - Radius(e.area)

(* C11: in full mode the returned distances map has one entry per registered
   area exactly when all_matching_areas is empty, and is empty whenever
   all_matching_areas is non-empty, also when its only element came from the
   buffered fallback. *)
C11_DistancesIffNoMatch ==
    FullDone =>
        /\ full_result.all_matching_areas = <<>> =>
               DOMAIN full_result.distances = AreaNames
        /\ full_result.all_matching_areas # <<>> =>
               DOMAIN full_result.distances = {}

\* the buffered fallback matched an area and the distances map is empty
C11_Witness ==
    /\ FullDone
    /\ StrictSet = {}
    /\ full_result.all_matching_areas # <<>>
    /\ DOMAIN full_result.distances = {}

----------------------------------------------------------------------------
(* Vocabulary of the properties of update_user_location *)

\* the step is a call of update_user_location; call' holds its arguments, the
\* failures of the store during it, and whether the user's document existed
UpdateCalled == call'.op = "update_user_location"

\* the arguments of the call pass the range validation
ValidInput(c) == ValidLatitude(c.latitude) /\ ValidLongitude(c.longitude)

\* the document of the user the call was about
CallerDoc == users[call.user_uid]

(* C12: a call of update_user_location with a latitude outside [-90, 90] or a
   longitude outside [-180, 180] fails with HTTP 400 and leaves every stored
   record exactly as it was: nothing is updated and nothing is created. *)
C12_InvalidInputRejected ==
    [][(UpdateCalled /\ ~ValidInput(call')) =>
           /\ response'.kind = "HTTPException"
           /\ response'.status_code = 400
           /\ users' = users]_vars

\* an out-of-range call was rejected for a user who had a stored location
C12_Witness ==
    /\ call.op = "update_user_location"
    /\ ~ValidInput(call)
    /\ response.kind = "HTTPException"
    /\ CallerDoc.exists
    /\ "gps_location" \in DOMAIN CallerDoc.data

\* what detection answers for the coordinates and the mode of a call
DetectedFor(c) == DetectedAreaInfo[<<c.latitude, c.longitude>>][c.fast_mode]

\* the payload of a call, field by field
PayloadWritten(c, data) ==
    /\ data.gps_location = [latitude |-> c.latitude, longitude |-> c.longitude,
                            accuracy |-> c.accuracy]
    /\ data.current_area = DetectedFor(c).primary_area
    /\ ~c.fast_mode =>
           /\ data.all_areas = DetectedFor(c).all_matching_areas
           /\ data.is_on_area_edge = DetectedFor(c).is_on_edge
           /\ data.nearby_areas = DetectedFor(c).nearby_areas

\* the fields of a call's payload
PayloadFields(c) ==
    IF c.fast_mode THEN {"gps_location", "current_area"}
    ELSE {"gps_location", "current_area", "all_areas", "is_on_area_edge", "nearby_areas"}

\* the normal result of a call
NormalResult(c, r) ==
    /\ r.kind = "return"
    /\ r.latitude = c.latitude /\ r.longitude = c.longitude
    /\ r.accuracy = c.accuracy
    /\ r.primary_area = DetectedFor(c).primary_area
    /\ r.all_matching_areas = DetectedFor(c).all_matching_areas
    /\ r.is_on_edge = DetectedFor(c).is_on_edge
    /\ r.nearby_areas = DetectedFor(c).nearby_areas

(* C13: a valid call of update_user_location for a user with no stored record
   does not fail when the store accepts the create: the record then exists and
   holds exactly the assembled payload (gps_location and current_area, and in
   full mode all_areas, is_on_area_edge and nearby_areas), the call returns the
   normal result, and no other record changes. *)
C13_MissingRecordCreated ==
    [][(UpdateCalled /\ ValidInput(call') /\ ~call'.existed /\ ~call'.set_fails) =>
           /\ users'[call'.user_uid].exists
           /\ DOMAIN users'[call'.user_uid].data = PayloadFields(call')
           /\ PayloadWritten(call', users'[call'.user_uid].data)
           /\ NormalResult(call', response')
           /\ \A u \in UserIds \ {call'.user_uid} : users'[u] = users[u]]_vars

\* a full-mode call created the record of a user who had none
C13_Witness ==
    /\ call.op = "update_user_location"
    /\ ~call.existed
    /\ ~call.fast_mode
    /\ response.kind = "return"
    /\ CallerDoc.exists
    /\ "all_areas" \in DOMAIN CallerDoc.data

(* C14: update_user_location never retries a failed write: when update() fails
   on a record that exists, the failure reaches the caller, no second write
   happens (no record changes) and no success result is returned. *)
C14_WriteFailurePropagates ==
    [][(UpdateCalled /\ ValidInput(call') /\ call'.existed /\ call'.update_fails) =>
           /\ response'.kind = "Exception"
           /\ users' = users]_vars

\* the fields only a full-mode payload carries
FullModeFields == {"all_areas", "is_on_area_edge", "nearby_areas"}

\* field f is the same, or as absent, in both documents
SameField(f, old, new) ==
    /\ f \in DOMAIN old <=> f \in DOMAIN new
    /\ f \in DOMAIN old => new[f] = old[f]

(* C15: every payload update_user_location writes contains the raw
   coordinates, the accuracy and current_area, the detected primary area; it
   contains all_areas, is_on_area_edge and nearby_areas in full mode only, so a
   fast-mode update leaves the stored all_areas, is_on_area_edge and
   nearby_areas of the user as they were. *)
C15_PayloadByMode ==
    [][(UpdateCalled /\ response'.kind = "return") =>
           LET old == users[call'.user_uid].data
               new == users'[call'.user_uid].data
           IN  /\ PayloadFields(call') \subseteq DOMAIN new
               /\ PayloadWritten(call', new)
               /\ call'.fast_mode => \A f \in FullModeFields : SameField(f, old, new)]_vars

\* a fast-mode update moved current_area away from the all_areas that an
\* earlier full-mode update had stored
C15_Witness ==
    /\ call.op = "update_user_location"
    /\ call.fast_mode
    /\ response.kind = "return"
    /\ "all_areas" \in DOMAIN CallerDoc.data
    /\ CallerDoc.data.all_areas # <<>>
    /\ CallerDoc.data.current_area \notin SeqToSet(CallerDoc.data.all_areas)

(* C16: the message update_user_location returns is decided by primary_area,
   in exactly one of three cases: null gives "Not near any defined area", a
   "_nearby" label gives "Near {base area} (outside main area)", a registered
   name gives "You are in {area}".  "(near boundary)" is appended iff the call
   is in full mode, primary_area is a registered name and is_on_edge is true;
   "Also overlapping with" is appended iff the call is in full mode,
   primary_area is a registered name and all_matching_areas holds another
   area; so neither is appended in fast mode, nor to the other two messages. *)
C16_MessageCases ==
    response.kind = "return" =>
        LET m == response.message
            p == response.primary_area
            registered == p \in AreaNames
        IN  /\ p \in {None} \cup NearbyLabels \cup AreaNames
            /\ p = None =>
                   /\ m.text = "Location updated. Not near any defined area"
                   /\ m.area = None
            /\ p \in NearbyLabels =>
                   /\ m.text = "Location updated. Near {} (outside main area)"
                   /\ m.area \in AreaNames
                   /\ Nearby(m.area) = p
            /\ registered =>
                   /\ m.text = "Location updated. You are in {}"
                   /\ m.area = p
            /\ m.near_boundary <=>
                   (~response.fast_mode /\ registered /\ response.is_on_edge)
            /\ (m.overlapping # <<>>) <=>
                   /\ ~response.fast_mode
                   /\ registered
                   /\ SeqToSet(response.all_matching_areas) \ {p} # {}
            /\ SeqToSet(m.overlapping) \subseteq SeqToSet(response.all_matching_areas) \ {p}

\* a full-mode call answered with both suffixes
C16_Witness ==
    /\ response.kind = "return"
    /\ ~response.fast_mode
    /\ response.message.near_boundary
    /\ response.message.overlapping # <<>>

----------------------------------------------------------------------------
(* Vocabulary of the properties of the queries *)

\* the document of user uid is in the store, reachable, with a location
LocatedCandidate(uid) ==
    /\ uid \in DOMAIN users
    /\ users[uid].exists
    /\ "is_reachable" \in DOMAIN users[uid].data
    /\ users[uid].data.is_reachable = TRUE
    /\ "gps_location" \in DOMAIN users[uid].data

\* the distance from the point of the nearby query to the stored location of uid
DistanceToUser(uid) ==
    calculate_distance_meters(call.latitude, call.longitude,
                              users[uid].data.gps_location.latitude,
                              users[uid].data.gps_location.longitude)

(* C17: whatever the stored records, every user get_nearby_users returns is a
   reachable candidate with a stored location at a distance of at most
   radius_m from the point asked, the unrounded distance being the one
   compared; the list is in ascending order of the distance it reports, names
   no user twice and is no longer than max_results; candidates without a
   stored location are left out and the call returns. *)
C17_NearbyUsersSound ==
    call.op = "get_nearby_users" =>
        LET r == response.users
        IN  /\ response.kind = "return"
            /\ \A i \in 1..Len(r) :
                   /\ LocatedCandidate(r[i].uid)
                   /\ DistanceToUser(r[i].uid) <= call.radius_m
                   /\ r[i].distance_meters = Round2(DistanceToUser(r[i].uid))
            /\ \A i, j \in 1..Len(r) :
                   i < j => /\ r[i].distance_meters <= r[j].distance_meters
                            /\ r[i].uid # r[j].uid
            /\ Len(r) <= call.max_results

\* two users were returned against the order of the stream, and a reachable
\* user without a stored location was passed over
C17_Witness ==
    /\ call.op = "get_nearby_users"
    /\ Len(response.users) = 2
    /\ response.users[1].uid > response.users[2].uid
    /\ response.users[1].distance_meters < response.users[2].distance_meters
    /\ \E u \in DOMAIN users :
           /\ users[u].exists
           /\ Get(users[u].data, "is_reachable", FALSE) = TRUE
           /\ "gps_location" \notin DOMAIN users[u].data

\* the stored fields of user uid make them a member of area a
StoredMember(uid, a) ==
    LET data == users[uid].data
    IN  \/ "current_area" \in DOMAIN data /\ data.current_area = a
        \/ "all_areas" \in DOMAIN data /\ a \in SeqToSet(data.all_areas)

\* the stored edge flag of user uid
StoredOnEdge(uid) ==
    "is_on_area_edge" \in DOMAIN users[uid].data /\ users[uid].data.is_on_area_edge

\* user uid has a document that the reachability filter lets through
Reachable(uid) ==
    /\ uid \in DOMAIN users
    /\ users[uid].exists
    /\ "is_reachable" \in DOMAIN users[uid].data
    /\ users[uid].data.is_reachable = TRUE

\* the users named in a list of results
Uids(seq) == {seq[i].uid : i \in 1..Len(seq)}

\* both lookups decide from the stored fields, and agree on reachable users
MembershipFromStoredFields ==
    /\ call.op = "get_users_in_area" =>
           /\ response.kind = "return"
           /\ Len(response.users) = Cardinality(Uids(response.users))
           /\ Uids(response.users) =
                  {u \in DOMAIN users :
                      /\ Reachable(u)
                      /\ StoredMember(u, call.area_name)
                      /\ call.include_edge_users \/ ~StoredOnEdge(u)}
    /\ call.op = "is_user_in_area" =>
           /\ response.kind = "return"
           /\ IF call.user_uid \in DOMAIN users /\ users[call.user_uid].exists
              THEN response.is_in_area <=> StoredMember(call.user_uid, call.area_name)
              ELSE ~response.is_in_area
           /\ Reachable(call.user_uid) =>
                  (response.is_in_area <=>
                       call.user_uid \in Uids(get_users_in_area(users, call.area_name, TRUE)))

\* the lookup of the last call found nobody
NotFound ==
    /\ call.op = "get_users_in_area" => response.users = <<>>
    /\ call.op = "is_user_in_area" => ~response.is_in_area

(* C18 as stated: get_users_in_area and is_user_in_area decide membership from
   the stored fields only (current_area equal to the name, or the name in
   all_areas; get_users_in_area drops members whose stored is_on_area_edge is
   true when include_edge_users is false), they agree on every reachable user,
   an unknown user is in no area, and a name that is not a registered area
   finds nobody. *)
C18_UnregisteredNameFindsNobody ==
    call.op \in {"get_users_in_area", "is_user_in_area"} =>
        /\ MembershipFromStoredFields
        /\ call.area_name \notin AreaNames => NotFound

(* C18 as amended: the same, except that only a name which is neither a
   registered area nor a "_nearby" label is sure to find nobody: a "_nearby"
   label is compared with the stored current_area like any other value. *)
C18_UnproducedNameFindsNobody ==
    call.op \in {"get_users_in_area", "is_user_in_area"} =>
        /\ MembershipFromStoredFields
        /\ call.area_name \notin AreaNames \cup NearbyLabels => NotFound

\* with edge users excluded, a member of SBIT by its stored all_areas alone was
\* returned and a member on the edge was dropped
C18_Witness ==
    /\ call.op = "get_users_in_area"
    /\ call.area_name = "SBIT"
    /\ ~call.include_edge_users
    /\ \E i \in 1..Len(response.users) : response.users[i].current_area # "SBIT"
    /\ \E u \in DOMAIN users :
           Reachable(u) /\ StoredMember(u, "SBIT") /\ u \notin Uids(response.users)

\* the primary area of full-mode detection, with its defaults, at point p
PrimaryAt(p) ==
    detect_area_from_coordinates(p[1], p[2], FALSE, MAX_UNRECOGNIZED_DISTANCE).primary_area

\* point p is more than 10,000 m from the center of every area
BeyondEveryArea(p) ==
    \A a \in AreaNames : CenterDistance(p[1], p[2], a) > MAX_UNRECOGNIZED_DISTANCE

(* C19: calculate_delivery_distance detects each endpoint on its own, in full
   mode, and crosses_areas is true exactly when the two primary areas differ,
   null and "_nearby" labels compared as the values they are; so it is false
   when pickup and drop are the same coordinates and false when both are
   beyond 10,000 m of every area. *)
C19_CrossesIffPrimariesDiffer ==
    call.op = "calculate_delivery_distance" =>
        /\ response.kind = "return"
        /\ response.pickup_area = PrimaryAt(call.pickup)
        /\ response.drop_area = PrimaryAt(call.drop)
        /\ response.crosses_areas <=> PrimaryAt(call.pickup) # PrimaryAt(call.drop)
        /\ call.pickup = call.drop => ~response.crosses_areas
        /\ (BeyondEveryArea(call.pickup) /\ BeyondEveryArea(call.drop)) =>
               ~response.crosses_areas

\* a delivery from just outside an area into that area crosses areas
C19_Witness ==
    /\ call.op = "calculate_delivery_distance"
    /\ response.drop_area \in AreaNames
    /\ response.pickup_area = Nearby(response.drop_area)
    /\ response.crosses_areas

----------------------------------------------------------------------------
(* Vocabulary of the properties of the bulk update *)

\* the step is the return of bulk_location_update_endpoint
BulkReturns ==
    /\ call.op = "bulk_location_update_endpoint"
    /\ response = NoResponse
    /\ response'.kind = "return"

\* the i-th entry of the submitted list
Entry(i) == call.updates[i]

\* the entry has a user id and both coordinates
WellFormed(e) == {"user_uid", "latitude", "longitude"} \subseteq DOMAIN e

\* the i-th entry is well-formed and its write is accepted: the store does not
\* reject it and the document of its user exists
Succeeds(i) ==
    /\ WellFormed(Entry(i))
    /\ ~Entry(i).update_fails
    /\ users[Entry(i).user_uid].exists

SucceedingEntries == {i \in 1..Len(call.updates) : Succeeds(i)}

FailingEntries == {i \in 1..Len(call.updates) : ~Succeeds(i)}

\* the k-th smallest element of a set of indices
Kth(S, k) == CHOOSE i \in S : Cardinality({j \in S : j <= i}) = k

\* the last succeeding entry of user u
LastEntryOf(u) ==
    CHOOSE i \in SucceedingEntries :
        /\ Entry(i).user_uid = u
        /\ \A j \in SucceedingEntries : Entry(j).user_uid = u => j <= i

(* C20: the bulk update handles the entries of the list one after the other,
   each on its own: every entry gives one item of results or one of errors,
   in the order of the list, so successful + failed = total_updates; an entry
   without a user id or a coordinate, or whose write fails, is an error of
   that entry alone: every later entry is still processed, and the record of a
   user changes only by that user's own succeeding entries. *)
C20_EntriesIndependent ==
    [][BulkReturns =>
           LET r == response'
           IN  /\ r.total_updates = Len(call.updates)
               /\ r.successful = Len(r.results)
               /\ r.failed = Len(r.errors)
               /\ r.successful + r.failed = r.total_updates
               /\ r.successful = Cardinality(SucceedingEntries)
               /\ r.failed = Cardinality(FailingEntries)
               /\ \A k \in 1..Len(r.results) :
                      LET e == Entry(Kth(SucceedingEntries, k))
                      IN  /\ r.results[k].user_uid = e.user_uid
                          /\ r.results[k].area =
                                 detect_area_from_coordinates_fast(e.latitude, e.longitude)
                          /\ r.results[k].success
               /\ \A k \in 1..Len(r.errors) :
                      r.errors[k].update = Entry(Kth(FailingEntries, k))
               /\ \A u \in DOMAIN users :
                      IF \E i \in SucceedingEntries : Entry(i).user_uid = u
                      THEN LET e == Entry(LastEntryOf(u))
                               old == users[u].data
                               new == users'[u].data
                           IN  /\ users'[u].exists
                               /\ DOMAIN new = DOMAIN old \cup {"gps_location", "current_area"}
                               /\ new.gps_location = [latitude |-> e.latitude,
                                                      longitude |-> e.longitude]
                               /\ new.current_area =
                                      detect_area_from_coordinates_fast(e.latitude, e.longitude)
                               /\ \A f \in DOMAIN old \ {"gps_location", "current_area"} :
                                      new[f] = old[f]
                      ELSE users'[u] = users[u]]_vars

\* after an entry without a user id and an entry of user 1 whose write failed,
\* the entry of user 2 succeeded, and the record of user 1 holds no location
C20_Witness ==
    /\ call.op = "bulk_location_update_endpoint"
    /\ response.kind = "return"
    /\ Len(call.updates) = 3
    /\ "user_uid" \notin DOMAIN call.updates[1]
    /\ WellFormed(call.updates[2]) /\ call.updates[2].user_uid = 1
    /\ call.updates[2].update_fails
    /\ response.failed = 2
    /\ response.successful = 1
    /\ response.results[1].user_uid = 2
    /\ users[1].exists
    /\ "gps_location" \notin DOMAIN users[1].data
    /\ "gps_location" \in DOMAIN users[2].data

----------------------------------------------------------------------------
(* Vocabulary of the properties of the concurrent calls *)

Returned(t) == tasks[t].pc = "returned"

\* what the call of task t returns when no other call runs
AloneResult(t) ==
    IF tasks[t].fn = "fast"
    THEN detect_area_from_coordinates_fast(tasks[t].latitude, tasks[t].longitude)
    ELSE detect_area_from_coordinates(tasks[t].latitude, tasks[t].longitude, FALSE,
                                      MAX_UNRECOGNIZED_DISTANCE)

\* C21: the detection functions never modify AREA_BOUNDARIES or
\* AREA_BOUNDARIES_OPTIMIZED and keep no state between calls: under every
\* interleaving of the steps of concurrent calls, each call that has returned
\* returned what it returns when run alone on the same inputs.
C21_ConcurrentCallsReturnAloneResult ==
    /\ registry = Registry
    /\ \A t \in TaskIds : Returned(t) => tasks[t].result = AloneResult(t)

\* a full-mode call has returned a match while another full-mode call, at a
\* different point, is in the middle of its first pass and has matched an area
C21_Witness ==
    \E t, u \in TaskIds :
        /\ t # u
        /\ tasks # NoTasks
        /\ tasks[t].fn = "full" /\ tasks[u].fn = "full"
        /\ <<tasks[t].latitude, tasks[t].longitude>> # <<tasks[u].latitude, tasks[u].longitude>>
        /\ Returned(t) /\ tasks[t].result.all_matching_areas # <<>>
        /\ ~Returned(u) /\ tasks[u].i \in 2..Len(AreaOrder)
        /\ tasks[u].matching_areas # <<>>

----------------------------------------------------------------------------
(* Properties of calculate_distance_meters *)

DistanceCalled == call # NoCall /\ call.op = "calculate_distance_meters"

\* C22: calculate_distance_meters is symmetric and zero on the diagonal: the
\* distance returned for (a, b) is the distance of (b, a), and the distance
\* from a point to itself is 0.
C22_DistanceSymmetricZeroOnDiagonal ==
    DistanceCalled =>
        /\ response.distance =
               calculate_distance_meters(call.lat2, call.lon2, call.lat1, call.lon1)
        /\ (call.lat1 = call.lat2 /\ call.lon1 = call.lon2) => response.distance = 0

\* a distance of more than a kilometre was returned between two points that
\* differ in latitude and in longitude
C22_Witness ==
    /\ DistanceCalled
    /\ call.lat1 # call.lat2
    /\ call.lon1 # call.lon2
    /\ response.distance > 1000000

----------------------------------------------------------------------------
(* Vocabulary of the properties of the requests *)

Stored == RequestId \in DOMAIN requests

\* the step in which the accept_request call of task t returns the request
AcceptSucceeds(t) ==
    /\ tasks'[t].op = "accept_request"
    /\ tasks[t].result = None
    /\ tasks'[t].result = "ok"

\* the step in which the accept_request call of task t raises
AcceptFails(t) ==
    /\ tasks'[t].op = "accept_request"
    /\ tasks[t].result = None
    /\ tasks'[t].result \in {"404", "400"}

Accepted == {t \in CallIds : tasks[t].op = "accept_request" /\ tasks[t].result = "ok"}

\* C23: accept_request is atomic and exclusive: under every interleaving a call
\* succeeds only on a stored request that is 'open' at that moment and whose
\* poster is not the caller, it leaves the request 'accepted' with accepted_by
\* the caller, a call that fails leaves the request as it was, and at most one
\* call on the request succeeds.
C23_AcceptAtomicExclusive ==
    [][/\ \A t \in CallIds :
              /\ AcceptSucceeds(t) =>
                     /\ Stored
                     /\ requests[RequestId].status = "open"
                     /\ requests[RequestId].posted_by # tasks'[t].user_uid
                     /\ requests'[RequestId].status = "accepted"
                     /\ requests'[RequestId].accepted_by = tasks'[t].user_uid
              /\ AcceptFails(t) => requests' = requests
       /\ Cardinality(Accepted') <= 1]_vars

\* one user's accept_request has succeeded while another user's, which had read
\* the request before, found it changed at its commit and is run again
C23_Witness ==
    \E t, u \in CallIds :
        /\ tasks # NoTasks
        /\ tasks[t].op = "accept_request" /\ tasks[u].op = "accept_request"
        /\ tasks[t].user_uid # tasks[u].user_uid
        /\ tasks[t].result = "ok"
        /\ tasks[u].pc = "retry"
        /\ requests[RequestId].accepted_by = tasks[t].user_uid

\* the step in which the update_request_status call of task t raises
UpdateStatusFails(t) ==
    /\ tasks'[t].op = "update_request_status"
    /\ tasks[t].result = None
    /\ tasks'[t].result \in {"404", "403", "400"}

\* the call of task t asks for a transition that is not allowed from the stored
\* status, or its caller is neither the poster nor the acceptor
NotAllowed(t) ==
    /\ tasks'[t].op = "update_request_status"
    /\ tasks[t].op = None
    /\ Stored
    /\ \/ tasks'[t].new_status \notin valid_transitions[requests[RequestId].status]
       \/ tasks'[t].user_uid \notin {requests[RequestId].posted_by,
                                     requests[RequestId].accepted_by}

\* C24: the stored status of a request changes only along open -> accepted,
\* open -> cancelled, accepted -> completed, accepted -> cancelled, so that a
\* 'completed' or 'cancelled' request keeps its status, under every
\* interleaving of update_request_status, accept_request and
\* mark_expired_requests; and an update_request_status call that asks for
\* another transition, or whose caller is neither poster nor acceptor, fails
\* and leaves the request unchanged.
C24_StatusFollowsValidTransitions ==
    [][/\ Stored =>
              \/ requests'[RequestId].status = requests[RequestId].status
              \/ requests'[RequestId].status \in valid_transitions[requests[RequestId].status]
       /\ \A t \in CallIds :
              /\ NotAllowed(t) => UpdateStatusFails(t)
              /\ UpdateStatusFails(t) => requests' = requests]_vars

\* C30: after every sequence of create_request, accept_request and
\* update_request_status calls, a request whose status is 'accepted' or
\* 'completed' has an accepted_by that is not null and is not its poster.
C30_AcceptedHasAcceptor ==
    (Stored /\ requests[RequestId].status \in {"accepted", "completed"}) =>
        /\ requests[RequestId].accepted_by # None
        /\ requests[RequestId].accepted_by # requests[RequestId].posted_by

----------------------------------------------------------------------------
(* More properties of detection *)

Matching == SeqToSet(full_result.all_matching_areas)

(* C25: full mode never admits a match by inflating the strict-radius test:
   an area of all_matching_areas that lies farther than its radius_m is the
   only element, is the primary area, the point is on the edge and no area
   strictly contains the point; so when all_matching_areas has two or more
   elements each of them is within its radius_m. *)
C25_BufferOnlyThroughFallback ==
    FullDone =>
        /\ \A a \in Matching :
               Dist(a) > Radius(a) =>
                   /\ full_result.all_matching_areas = <<a>>
                   /\ full_result.primary_area = a
                   /\ full_result.is_on_edge = TRUE
                   /\ StrictSet = {}
        /\ Len(full_result.all_matching_areas) >= 2 =>
               \A a \in Matching : Dist(a) <= Radius(a)

\* full mode has answered for a point that no area strictly contains and that
\* lies in the buffer ring of the nearest one, which is the one matching area
C25_Witness ==
    /\ FullDone
    /\ StrictSet = {}
    /\ \E a \in Matching :
           /\ Dist(a) > Radius(a)
           /\ Dist(a) <= Radius(a) + BUFFER_ZONE_METERS

\* the answer of quick_distance_check in the fast loop's iteration for area a
QuickCheck(a) ==
    quick_distance_check(latitude, longitude, AREA_BOUNDARIES_OPTIMIZED[a].center[1],
                         AREA_BOUNDARIES_OPTIMIZED[a].center[2],
                         AREA_BOUNDARIES_OPTIMIZED[a].radius_with_buffer)

(* C26: the definite answers of quick_distance_check are sound: when it
   answers False for a point, a center and max_distance_m, the exact distance
   between the two is greater than max_distance_m; so the fast loop never
   skips an area whose own circle contains the point. *)
C26_QuickCheckFalseIsSound ==
    FastDone =>
        \A a \in AreaNames :
            QuickCheck(a) = "False" =>
                /\ Dist(a) > AREA_BOUNDARIES_OPTIMIZED[a].radius_with_buffer
                /\ a \notin StrictSet

(* C27: in every full-mode result, all_matching_areas is empty exactly when
   primary_area is null or ends with "_nearby"; when all_matching_areas is
   not empty, primary_area is a registered area name and one of its
   elements; and is_on_edge is true only when primary_area is a registered
   area name. *)
C27_ResultFieldsAgree ==
    FullDone =>
        /\ full_result.all_matching_areas = <<>> <=>
               (full_result.primary_area = None \/ full_result.primary_area \in NearbyLabels)
        /\ full_result.all_matching_areas # <<>> =>
               /\ full_result.primary_area \in AreaNames
               /\ full_result.primary_area \in Matching
        /\ full_result.is_on_edge = TRUE => full_result.primary_area \in AreaNames

\* full mode has answered with an empty all_matching_areas and a "_nearby"
\* primary area
C27_Witness ==
    /\ FullDone
    /\ full_result.all_matching_areas = <<>>
    /\ full_result.primary_area \in NearbyLabels
    /\ full_result.is_on_edge = FALSE

\* no area's own circle contains the point, and some area's buffer ring does
RingOnly ==
    /\ StrictSet = {}
    /\ \E a \in AreaNames : Dist(a) <= Radius(a) + BUFFER_ZONE_METERS

(* C28: fast mode is sound with respect to full mode: a bare registered name X
   returned by fast mode is the name of an area within whose radius_m the
   point lies, and X is in full mode's all_matching_areas for the same point;
   for a point that lies only in an area's buffer ring fast mode returns a
   "_nearby" label, never a bare name. *)
C28_FastSoundForFull ==
    FastDone =>
        /\ fast_result \in AreaNames =>
               /\ Dist(fast_result) <= Radius(fast_result)
               /\ FullDone => fast_result \in Matching
        /\ RingOnly => fast_result \in NearbyLabels

\* both modes have answered for a point that lies only in a buffer ring: full
\* mode matches the area, fast mode labels the point "_nearby"
C28_Witness ==
    /\ FastDone
    /\ FullDone
    /\ RingOnly
    /\ full_result.all_matching_areas # <<>>
    /\ fast_result \in NearbyLabels

(* C29: after every sequence of successful update_user_location calls for a
   user, in any mix of fast and full mode, the stored area fields agree: when
   the record has all_areas, current_area is a registered area name exactly
   when it is an element of all_areas, and all_areas is empty when
   current_area is null or a "_nearby" label. *)
C29_StoredAreaFieldsAgree ==
    \A u \in UserIds :
        (users[u].exists /\ "all_areas" \in DOMAIN users[u].data) =>
            LET current_area == users[u].data.current_area
                all_areas == users[u].data.all_areas
            IN  /\ current_area \in AreaNames <=> current_area \in SeqToSet(all_areas)
                /\ (current_area = None \/ current_area \in NearbyLabels) => all_areas = <<>>

====
